---- MODULE Spec2Model ----
(***************************************************************************)
(* Model of the incident resolution pipeline of app/main.py:               *)
(* _parse_possible_json, exponential_backoff_retry and process_alert.      *)
(*                                                                         *)
(* Numbers are held in hundredths (0.8 is 80).  A text is a sequence of    *)
(* lexical tokens; a Python value is a record PV with a type tag t.        *)
(***************************************************************************)
EXTENDS Integers, Sequences, FiniteSets, TLC

VARIABLES
    pc,               \* position of the process_alert request
    incident_id,      \* main.py:184
    attempt,          \* loop variable of exponential_backoff_retry
    last_exc,         \* main.py:94
    calls,            \* outcome of every fn() invocation, in order
    sleeps,           \* every time.sleep(wait) made, in order
    toolCalls,        \* SSM_Execute invocations made inside the running kickoff
    ssmSent,          \* commands the remote executor accepted in this run
    ssmFailed,        \* SSM_Execute invocations that raised
    result,           \* what crew.kickoff returned
    parsed_analyzer,  \* main.py:254
    parsed_executor,  \* main.py:254
    resolution,       \* main.py:272
    status,           \* main.py:286-291
    audit,            \* items put into the audit table, in order
    response,         \* what the HTTP caller receives
    val,              \* argument of a direct _parse_possible_json call
    ret,              \* its return value
    alert,            \* the request body of a pending POST /process_alert
    backoff,          \* an exponential_backoff_retry call with given parameters
    rag,              \* a RAGTool._run call
    approvals,        \* the POST /approve requests served, with their responses
    store             \* the audit table by key, the wall clock, and the runs writing to it

vars == <<pc, incident_id, attempt, last_exc, calls, sleeps, toolCalls, ssmSent,
          ssmFailed, result, parsed_analyzer, parsed_executor, resolution,
          status, audit, response, val, ret, alert, backoff, rag, approvals, store>>

pipeVars == <<pc, incident_id, attempt, last_exc, calls, sleeps, toolCalls, ssmSent,
              ssmFailed, result, parsed_analyzer, parsed_executor, resolution,
              status, audit, response>>

parseVars == <<val, ret>>

sideVars == <<alert, backoff, rag, approvals>>

storeVars == <<store>>

(***************************************************************************)
(* Python values.  t is the type: "float", "int", "nan" (the float NaN),   *)
(* "str", "bool", "None", "list", "dict", "Decimal".  n is the number in   *)
(* hundredths (1/0 for a bool), s the text of a str, l the elements of a   *)
(* list, m the items of a dict.                                            *)
(***************************************************************************)
Mk(t, n, s, l, m) == [t |-> t, n |-> n, s |-> s, l |-> l, m |-> m]

Float(n) == Mk("float", n, "", <<>>, <<>>)

PyInt(n) == Mk("int", n, "", <<>>, <<>>)

NaN == Mk("nan", 0, "", <<>>, <<>>)

Str(s) == Mk("str", 0, s, <<>>, <<>>)

PyTrue == Mk("bool", 1, "", <<>>, <<>>)

PyFalse == Mk("bool", 0, "", <<>>, <<>>)

None == Mk("None", 0, "", <<>>, <<>>)

List(l) == Mk("list", 0, "", l, <<>>)

Dict(m) == Mk("dict", 0, "", <<>>, m)

EmptyDict == Dict(<<>>)

\* bool(v): what `if not val` and `if parsed_analyzer` test.
Truthy(v) ==
    CASE v.t = "None" -> FALSE
      [] v.t = "bool" -> v.n = 1
      [] v.t \in {"float", "int", "Decimal"} -> v.n # 0
      [] v.t = "str" -> v.s # ""
      [] v.t = "list" -> Len(v.l) > 0
      [] v.t = "dict" -> DOMAIN v.m # {}
      [] OTHER -> TRUE

(***************************************************************************)
(* Texts.  A text is a sequence of tokens: the structural characters,      *)
(* "nl" (a newline, which is JSON whitespace), "w" (a word of prose), a    *)
(* key with its colon, or a scalar literal.                                *)
(***************************************************************************)
KeyTok == {"confidence:", "executed:", "command_id:", "issue:", "note:"}

KeyName(tok) ==
    CASE tok = "confidence:" -> "confidence"
      [] tok = "executed:" -> "executed"
      [] tok = "command_id:" -> "command_id"
      [] tok = "issue:" -> "issue"
      [] tok = "note:" -> "note"

ScalarTok == {"0.5", "0.8", "0.85", "0.9", "0.99", "1.5", "1", "7", "NaN", "true", "false",
              "null", "'high'", "'0.9'", "''", "'yes'", "'cmd-1'", "'cmd-2'",
              "'DB down'", "'skipped'"}

\* The value json.loads gives a scalar literal (it accepts NaN).
ScalarPV(tok) ==
    CASE tok = "0.5" -> Float(50)
      [] tok = "0.8" -> Float(80)
      [] tok = "0.85" -> Float(85)
      [] tok = "0.9" -> Float(90)
      [] tok = "0.99" -> Float(99)
      [] tok = "1.5" -> Float(150)
      [] tok = "1" -> PyInt(100)
      [] tok = "7" -> PyInt(700)
      [] tok = "NaN" -> NaN
      [] tok = "true" -> PyTrue
      [] tok = "false" -> PyFalse
      [] tok = "null" -> None
      [] tok = "'high'" -> Str("high")
      [] tok = "'0.9'" -> Str("0.9")
      [] tok = "''" -> Str("")
      [] tok = "'yes'" -> Str("yes")
      [] tok = "'cmd-1'" -> Str("cmd-1")
      [] tok = "'cmd-2'" -> Str("cmd-2")
      [] tok = "'DB down'" -> Str("DB down")
      [] tok = "'skipped'" -> Str("skipped")

NoParse == [ok |-> FALSE, v |-> None, i |-> 0]

RECURSIVE SkipWs(_, _)
SkipWs(t, i) == IF i <= Len(t) /\ t[i] = "nl" THEN SkipWs(t, i + 1) ELSE i

RECURSIVE ParseValue(_, _)
RECURSIVE ParseMembers(_, _, _, _)
RECURSIVE ParseElements(_, _, _, _)

\* json decoder: one value starting at position i (leading whitespace skipped).
ParseValue(t, i) ==
    LET j == SkipWs(t, i) IN
    IF j > Len(t) THEN NoParse
    ELSE IF t[j] = "{" THEN ParseMembers(t, SkipWs(t, j + 1), <<>>, TRUE)
    ELSE IF t[j] = "[" THEN ParseElements(t, SkipWs(t, j + 1), <<>>, TRUE)
    ELSE IF t[j] \in ScalarTok THEN [ok |-> TRUE, v |-> ScalarPV(t[j]), i |-> j + 1]
    ELSE NoParse

\* json decoder: the members of an object; a repeated key keeps its last value.
ParseMembers(t, i, m, first) ==
    IF i > Len(t) THEN NoParse
    ELSE IF first /\ t[i] = "}" THEN [ok |-> TRUE, v |-> Dict(m), i |-> i + 1]
    ELSE IF t[i] \notin KeyTok THEN NoParse
    ELSE LET r == ParseValue(t, i + 1) IN
         IF ~r.ok THEN NoParse
         ELSE LET m2 == (KeyName(t[i]) :> r.v) @@ m
                  j == SkipWs(t, r.i)
              IN IF j > Len(t) THEN NoParse
                 ELSE IF t[j] = "}" THEN [ok |-> TRUE, v |-> Dict(m2), i |-> j + 1]
                 ELSE IF t[j] = "," THEN ParseMembers(t, SkipWs(t, j + 1), m2, FALSE)
                 ELSE NoParse

\* json decoder: the elements of an array.
ParseElements(t, i, l, first) ==
    IF i > Len(t) THEN NoParse
    ELSE IF first /\ t[i] = "]" THEN [ok |-> TRUE, v |-> List(l), i |-> i + 1]
    ELSE LET r == ParseValue(t, i) IN
         IF ~r.ok THEN NoParse
         ELSE LET l2 == Append(l, r.v)
                  j == SkipWs(t, r.i)
              IN IF j > Len(t) THEN NoParse
                 ELSE IF t[j] = "]" THEN [ok |-> TRUE, v |-> List(l2), i |-> j + 1]
                 ELSE IF t[j] = "," THEN ParseElements(t, SkipWs(t, j + 1), l2, FALSE)
                 ELSE NoParse

\* json.loads(text): ok is FALSE where it raises.
JsonLoads(t) ==
    LET r == ParseValue(t, 1) IN
    IF r.ok /\ SkipWs(t, r.i) > Len(t) THEN [ok |-> TRUE, v |-> r.v]
    ELSE [ok |-> FALSE, v |-> None]

Positions(t, tok) == {i \in 1..Len(t) : t[i] = tok}

SetMin(S) == CHOOSE x \in S : \A y \in S : x <= y

SetMax(S) == CHOOSE x \in S : \A y \in S : x >= y

\* re.search(r"\{.*\}", val, re.DOTALL): the span from the first "{" to the
\* last "}" after it; found is FALSE when there is no match.
BraceSpan(t) ==
    LET opens == Positions(t, "{") IN
    IF opens = {} THEN [found |-> FALSE, txt |-> <<>>]
    ELSE LET a == SetMin(opens)
             closes == {i \in Positions(t, "}") : i > a}
         IN IF closes = {} THEN [found |-> FALSE, txt |-> <<>>]
            ELSE [found |-> TRUE, txt |-> SubSeq(t, a, SetMax(closes))]

(***************************************************************************)
(* The argument of _parse_possible_json: a str with its text, or any       *)
(* other Python value.                                                     *)
(***************************************************************************)
Text(toks) == [k |-> "str", txt |-> toks, pv |-> None]

Obj(pv) == [k |-> "obj", txt |-> <<>>, pv |-> pv]

\* _parse_possible_json(val)
ParsePossibleJson(x) ==
    IF x.k = "str"
    THEN IF x.txt = <<>> THEN EmptyDict
         ELSE LET strict == JsonLoads(x.txt) IN
              IF strict.ok THEN strict.v
              ELSE LET span == BraceSpan(x.txt) IN
                   IF span.found
                   THEN LET inner == JsonLoads(span.txt) IN
                        IF inner.ok THEN inner.v ELSE EmptyDict
                   ELSE EmptyDict
    ELSE IF ~Truthy(x.pv) THEN EmptyDict
    ELSE IF x.pv.t = "dict" THEN x.pv
    ELSE EmptyDict

(***************************************************************************)
(* Python operations process_alert applies to the recovered values.        *)
(***************************************************************************)
\* dict.get(key, default)
Get(d, key, default) == IF key \in DOMAIN d THEN d[key] ELSE default

\* float(v): ok is FALSE where it raises (TypeError for None, a list or a
\* dict, ValueError for a str that is no number).
FloatOf(v) ==
    CASE v.t = "float" -> [ok |-> TRUE, v |-> v]
      [] v.t = "nan" -> [ok |-> TRUE, v |-> v]
      [] v.t = "int" -> [ok |-> TRUE, v |-> Float(v.n)]
      [] v.t = "bool" -> [ok |-> TRUE, v |-> Float(100 * v.n)]
      [] v.t = "str" /\ v.s = "0.9" -> [ok |-> TRUE, v |-> Float(90)]
      [] OTHER -> [ok |-> FALSE, v |-> None]

\* a < b on floats: every comparison with NaN is false.
FloatLt(a, b) == a.t = "float" /\ b.t = "float" /\ a.n < b.n

\* max(a, b): b only when b > a, so a NaN first argument is kept.
FloatMax(a, b) == IF FloatLt(a, b) THEN b ELSE a

RECURSIVE JoinFrom(_, _)
JoinFrom(l, i) ==
    IF i > Len(l) THEN ""
    ELSE IF i = Len(l) THEN l[i].s
    ELSE l[i].s \o "," \o JoinFrom(l, i + 1)

\* ",".join(l): ok is FALSE where it raises (an element that is no str).
Join(l) ==
    IF \A i \in 1..Len(l) : l[i].t = "str"
    THEN [ok |-> TRUE, v |-> Str(JoinFrom(l, 1))]
    ELSE [ok |-> FALSE, v |-> None]

\* resolution.update(p): p's items win; ok is FALSE where it raises (p is
\* a list, a str or a number: within the texts considered no list is a list
\* of pairs).
Update(res, p) ==
    IF p.t = "dict" THEN [ok |-> TRUE, d |-> p.m @@ res]
    ELSE [ok |-> FALSE, d |-> res]

(***************************************************************************)
(* Constants of the program.                                               *)
(***************************************************************************)
Retries == 3

BaseInterval == 1

MaxInterval == 10

\* allowed_exceptions of exponential_backoff_retry
AllowedExceptions == {"RateLimitError", "APIError"}

\* what the reasoning call may raise: the two transient kinds, an
\* authentication failure, any other exception
ExceptionKinds == {"RateLimitError", "APIError", "AuthenticationError", "Exception"}

SeverityEnum == {"low", "medium", "high"}

\* Defaults with a confidence of 0.8 for 0.7
Defaults_Confident ==
    [issue |-> Str("Unknown"), root_cause |-> Str("Unknown"), impact |-> Str("Unknown"),
     resolution |-> Str("Manual investigation required"),
     confidence |-> Float(80), executed |-> PyFalse]

\* main.py:272-273
Defaults ==
    [issue |-> Str("Unknown"), root_cause |-> Str("Unknown"), impact |-> Str("Unknown"),
     resolution |-> Str("Manual investigation required"),
     confidence |-> Float(70), executed |-> PyFalse]

LLMUnavailable ==
    [issue |-> Str("LLM unavailable"), root_cause |-> Str("Rate limited or service error"),
     impact |-> Str("Unknown"), resolution |-> Str("Manual investigation required"),
     confidence |-> Float(0), executed |-> PyFalse]

(***************************************************************************)
(* What crew.kickoff returns: the outputs of the four tasks in order, or   *)
(* an object without tasks_output (hasTasks FALSE).  A task output has the *)
(* agent's role (a str, or another value), the raw text and the text       *)
(* str(t) gives.                                                           *)
(***************************************************************************)
TaskOutput(agent, raw, str) == [agent |-> agent, raw |-> raw, str |-> str]

CrewOutput(tasks) == [hasTasks |-> TRUE, tasks |-> tasks]

PlainOutput == [hasTasks |-> FALSE, tasks |-> <<>>]

\* getattr(result, "tasks_output", [])
TasksOutput(r) == IF r.hasTasks THEN r.tasks ELSE <<>>

\* `needle in agent_name`: ok is FALSE where it raises (agent_name is no
\* str); the roles are told apart by their whole name.
InAgentName(needle, agent) ==
    IF agent.t = "str" THEN [ok |-> TRUE, v |-> agent.s = needle]
    ELSE [ok |-> FALSE, v |-> FALSE]

RECURSIVE ExtractLoop_Reset(_, _, _, _)
\* ExtractLoop with an exception discarding what was assigned before it
ExtractLoop_Reset(tasks, i, pa, pe) ==
    IF i > Len(tasks) THEN [pa |-> pa, pe |-> pe]
    ELSE LET t == tasks[i]
             agent_name == IF Truthy(t.agent) THEN t.agent ELSE Str("")
             raw_output == IF t.raw.txt # <<>> THEN t.raw ELSE t.str
             parsed_json == ParsePossibleJson(raw_output)
             isAnalyzer == InAgentName("Resolution Generator", agent_name)
             isExecutor == InAgentName("Fix Executor", agent_name)
         IN IF ~isAnalyzer.ok THEN [pa |-> EmptyDict, pe |-> EmptyDict]
            ELSE ExtractLoop_Reset(tasks, i + 1,
                                   IF isAnalyzer.v THEN parsed_json ELSE pa,
                                   IF isExecutor.v THEN parsed_json ELSE pe)

RECURSIVE ExtractLoop(_, _, _, _)
\* main.py:256-269: the loop over the task outputs; an exception ends the
\* loop and keeps what was assigned before it.
ExtractLoop(tasks, i, pa, pe) ==
    IF i > Len(tasks) THEN [pa |-> pa, pe |-> pe]
    ELSE LET t == tasks[i]
             agent_name == IF Truthy(t.agent) THEN t.agent ELSE Str("")
             raw_output == IF t.raw.txt # <<>> THEN t.raw ELSE t.str
             parsed_json == ParsePossibleJson(raw_output)
             isAnalyzer == InAgentName("Resolution Generator", agent_name)
             isExecutor == InAgentName("Fix Executor", agent_name)
         IN IF ~isAnalyzer.ok THEN [pa |-> pa, pe |-> pe]
            ELSE ExtractLoop(tasks, i + 1,
                             IF isAnalyzer.v THEN parsed_json ELSE pa,
                             IF isExecutor.v THEN parsed_json ELSE pe)

Extract(r) == ExtractLoop(TasksOutput(r), 1, EmptyDict, EmptyDict)

\* Merge with the Analyze mapping laid over the Execute mapping
Merge_AnalyzeLast(pa, pe) ==
    LET a == IF Truthy(pe) THEN Update(Defaults, pe) ELSE [ok |-> TRUE, d |-> Defaults]
        b == IF ~a.ok THEN a
             ELSE IF Truthy(pa) THEN Update(a.d, pa) ELSE a
        cmd == Get(b.d, "command_id", None)
    IN IF ~b.ok THEN b
       ELSE IF cmd.t = "list"
       THEN LET j == Join(cmd.l) IN
            IF j.ok THEN [ok |-> TRUE, d |-> [b.d EXCEPT !["command_id"] = j.v]]
            ELSE [ok |-> FALSE, d |-> b.d]
       ELSE b

\* main.py:272-281: defaults, the two overlays, the command_id join; ok is
\* FALSE where an exception leaves process_alert.
Merge(pa, pe) ==
    LET a == IF Truthy(pa) THEN Update(Defaults, pa) ELSE [ok |-> TRUE, d |-> Defaults]
        b == IF ~a.ok THEN a
             ELSE IF Truthy(pe) THEN Update(a.d, pe) ELSE a
        cmd == Get(b.d, "command_id", None)
    IN IF ~b.ok THEN b
       ELSE IF cmd.t = "list"
       THEN LET j == Join(cmd.l) IN
            IF j.ok THEN [ok |-> TRUE, d |-> [b.d EXCEPT !["command_id"] = j.v]]
            ELSE [ok |-> FALSE, d |-> b.d]
       ELSE b

Threshold == Float(80)

ExecutedConfidence == Float(95)

\* RaisedConfidence without the raise to 0.95
RaisedConfidence_Kept(confidence) == confidence

\* main.py:287
RaisedConfidence(confidence) == FloatMax(confidence, ExecutedConfidence)

\* FinalStatus with `confidence <= 0.8` for `confidence < 0.8`
FinalStatus_Le(executed, confidence) ==
    IF executed THEN "resolved"
    ELSE IF FloatLt(confidence, Threshold) \/ confidence = Threshold THEN "pending_human"
    ELSE "resolved"

\* main.py:285-291: executed is `resolution.get("executed") is True`.
FinalStatus(executed, confidence) ==
    IF executed THEN "resolved"
    ELSE IF FloatLt(confidence, Threshold) THEN "pending_human"
    ELSE "resolved"

\* main.py:284-291
Decide(res) ==
    LET c == FloatOf(Get(res, "confidence", Float(70)))
        executed == Get(res, "executed", None) = PyTrue
    IN IF ~c.ok THEN [ok |-> FALSE, d |-> res, status |-> ""]
       ELSE [ok |-> TRUE,
             d |-> IF executed THEN [res EXCEPT !["confidence"] = RaisedConfidence(c.v)]
                   ELSE res,
             status |-> FinalStatus(executed, c.v)]

\* convert_floats without the descent into lists
convert_floats_Shallow(obj) ==
    CASE obj.t = "float" -> Mk("Decimal", obj.n, "", <<>>, <<>>)
      [] obj.t = "nan" -> Mk("DecimalNaN", 0, "", <<>>, <<>>)
      [] obj.t = "dict" ->
            Dict([k \in DOMAIN obj.m |->
                    IF obj.m[k].t = "float" THEN Mk("Decimal", obj.m[k].n, "", <<>>, <<>>)
                    ELSE obj.m[k]])
      [] OTHER -> obj

RECURSIVE convert_floats(_)
\* main.py:41-48; Decimal(str(nan)) is the Decimal NaN.
convert_floats(obj) ==
    CASE obj.t = "float" -> Mk("Decimal", obj.n, "", <<>>, <<>>)
      [] obj.t = "nan" -> Mk("DecimalNaN", 0, "", <<>>, <<>>)
      [] obj.t = "dict" -> Dict([k \in DOMAIN obj.m |-> convert_floats(obj.m[k])])
      [] obj.t = "list" -> List([i \in 1..Len(obj.l) |-> convert_floats(obj.l[i])])
      [] OTHER -> obj

\* main.py:293-299: the item handed to put_item, with the timestamp given
AuditItemAt(id, ts, res, st) ==
    convert_floats(Dict(
        [incident_id |-> Str(id),
         timestamp |-> ts,
         resolution |-> Dict(res),
         actions |-> Str("str(result)"),
         human_intervention |-> IF st = "pending_human" THEN PyTrue ELSE PyFalse]))

\* main.py:293-299: the item handed to put_item.
AuditItem(id, res, st) ==
    convert_floats(Dict(
        [incident_id |-> Str(id),
         timestamp |-> Str("now"),
         resolution |-> Dict(res),
         actions |-> Str("str(result)"),
         human_intervention |-> IF st = "pending_human" THEN PyTrue ELSE PyFalse]))

RECURSIVE HasDecimalNaN(_)
HasDecimalNaN(v) ==
    \/ v.t = "DecimalNaN"
    \/ \E k \in DOMAIN v.m : HasDecimalNaN(v.m[k])
    \/ \E i \in 1..Len(v.l) : HasDecimalNaN(v.l[i])

\* Table.put_item's serializer refuses a Decimal NaN (TypeError).
Serializable(item) == ~HasDecimalNaN(item)

(***************************************************************************)
(* The inputs considered.                                                  *)
(***************************************************************************)
MaxToolCalls == 1

MaxLen == 5

\* descriptions, as sequences of characters
Descriptions == {<<>>, <<" ">>, <<" ", "\t">>, <<"D", "B">>, <<" ", "D">>}

Severities == SeverityEnum \cup {"critical"}

IncidentIds == {None, Str(""), Str("inc-1")}

AnalyzerTexts ==
    { <<"{", "issue:", "'DB down'", ",", "confidence:", "0.5", "}">>,
      <<"{", "confidence:", "0.8", "}">>,
      <<"w", "nl", "{", "issue:", "'DB down'", ",", "confidence:", "0.85", "}", "w">>,
      <<"{", "confidence:", "1.5", "}">>,
      <<"{", "confidence:", "NaN", "}">>,
      <<"{", "confidence:", "'high'", "}">>,
      <<"{", "confidence:", "null", "}">>,
      <<"{", "confidence:", "'0.9'", "}">>,
      <<"{", "confidence:", "0.5", ",", "executed:", "true", "}">>,
      <<"[", "0.9", "]">>,
      <<"w">>,
      <<"{", "}">> }

ExecutorTexts ==
    { <<"{", "executed:", "true", ",", "command_id:", "'cmd-1'", "}">>,
      <<"{", "executed:", "true", ",", "command_id:", "[", "'cmd-1'", ",", "'cmd-2'", "]", "}">>,
      <<"{", "executed:", "true", ",", "command_id:", "[", "7", "]", "}">>,
      <<"{", "executed:", "true", ",", "confidence:", "0.99", "}">>,
      <<"{", "executed:", "false", ",", "note:", "'skipped'", "}">>,
      <<"{", "executed:", "'yes'", "}">>,
      <<"[", "true", "]">>,
      <<"w">>,
      <<"{", "}">> }

Tasks(agentA, rawA, agentE, rawE, strE) ==
    << TaskOutput(Str("Incident Classifier"), Text(<<"w">>), Text(<<"w">>)),
       TaskOutput(Str("Runbook Selector"), Text(<<"{", "}">>), Text(<<"{", "}">>)),
       TaskOutput(agentA, Text(rawA), Text(rawA)),
       TaskOutput(agentE, Text(rawE), Text(strE)) >>

\* what a kickoff may return
Results ==
    {PlainOutput}
    \cup {CrewOutput(Tasks(Str("Resolution Generator"), a, Str("Fix Executor"), e, e)) :
            a \in AnalyzerTexts, e \in ExecutorTexts}
    \cup {CrewOutput(Tasks(Str("Resolution Generator"), <<"{", "confidence:", "0.85", "}">>,
                           PyInt(700), <<"{", "executed:", "true", "}">>,
                           <<"{", "executed:", "true", "}">>)),
          CrewOutput(Tasks(PyInt(700), <<"{", "confidence:", "0.85", "}">>,
                           Str("Fix Executor"), <<"{", "executed:", "true", "}">>,
                           <<"{", "executed:", "true", "}">>)),
          CrewOutput(Tasks(Str("Resolution Generator"), <<"{", "confidence:", "0.85", "}">>,
                           Str("Fix Executor"), <<>>, <<"{", "executed:", "false", "}">>)),
          CrewOutput(Tasks(Str("Resolution Generator"),
                           <<"{", "issue:", "'DB down'", ",", "confidence:", "0.5", "}">>,
                           Str("Fix Executor"),
                           <<"{", "issue:", "''", ",", "executed:", "false", "}">>,
                           <<"{", "issue:", "''", ",", "executed:", "false", "}">>))}

ParseAlphabet == {"{", "}", "[", "]", "nl", "w", "confidence:", "0.9"}

ParseInputs ==
    {Text(t) : t \in UNION {[1..n -> ParseAlphabet] : n \in 0..MaxLen}}
    \cup {Obj(v) : v \in {None, EmptyDict, Dict("confidence" :> Float(90)),
                          PyInt(700), PyInt(0), List(<<Float(90)>>)}}

(***************************************************************************)
(* process_alert                                                           *)
(***************************************************************************)
NoResponse == [code |-> 0, status |-> "", incident_id |-> "", resolution |-> <<>>, exc |-> ""]

\* the request ended in an exception
Failure(code, exc) ==
    [code |-> code, status |-> "", incident_id |-> "", resolution |-> <<>>, exc |-> exc]

\* main.py:248 and main.py:301
Outcome(st, id, res) ==
    [code |-> 200, status |-> st, incident_id |-> id, resolution |-> res, exc |-> ""]

NotCalled == [called |-> FALSE, v |-> None]

InitPipe ==
    /\ pc = "idle"
    /\ incident_id = ""
    /\ attempt = 0
    /\ last_exc = "None"
    /\ calls = <<>>
    /\ sleeps = <<>>
    /\ toolCalls = 0
    /\ ssmSent = 0
    /\ ssmFailed = 0
    /\ result = PlainOutput
    /\ parsed_analyzer = EmptyDict
    /\ parsed_executor = EmptyDict
    /\ resolution = <<>>
    /\ status = ""
    /\ audit = <<>>
    /\ response = NoResponse

NoAlert == [incident_id |-> None, description |-> <<>>, severity |-> ""]

BackoffIdle ==
    [pc |-> "idle", retries |-> 0, base_interval |-> 0, max_interval |-> 0, attempt |-> 0,
     last_exc |-> "None", calls |-> <<>>, sleeps |-> <<>>, raised |-> "None"]

\* no RAGTool._run call yet: the embedding outcome, the documents found, the
\* scores predicted, the external calls made, the exception met, the list
\* returned, and whether the call raised
RagIdle == [pc |-> "idle", embedding |-> "none", docs |-> <<>>, scores |-> <<>>,
            calls |-> <<>>, exc |-> "None", out |-> <<>>, raised |-> FALSE]

\* an empty audit table, the clock at its first reading, no run at put_item
StoreIdle == [table |-> <<>>, now |-> 0, runs |-> <<>>]

InitSide ==
    /\ alert = NoAlert
    /\ backoff = BackoffIdle
    /\ rag = RagIdle
    /\ approvals = <<>>
    /\ store = StoreIdle

Init ==
    /\ InitPipe
    /\ val = Text(<<>>)
    /\ ret = NotCalled
    /\ InitSide

\* the characters str.strip() removes
Whitespace == {" ", "\t"}

\* ValidDescription with the length check alone
ValidDescription_NonEmpty(d) == Len(d) >= 1

\* main.py:160-170: constr(min_length=1) and description_not_blank
ValidDescription(d) == Len(d) >= 1 /\ \E i \in 1..Len(d) : d[i] \notin Whitespace

ValidAlert(a) == ValidDescription(a.description) /\ a.severity \in SeverityEnum

\* IncidentIdOf with a generated id for every alert
IncidentIdOf_Generated(a) == "uuid-1"

\* main.py:184: str(uuid.uuid4()) is "uuid-1"
IncidentIdOf(a) == IF Truthy(a.incident_id) THEN a.incident_id.s ELSE "uuid-1"

\* POST /process_alert arrives: validation, then main.py:184-245 up to the
\* first fn() of exponential_backoff_retry.
SubmitAlert(a) ==
    /\ pc = "idle"
    /\ IF ValidAlert(a)
       THEN /\ incident_id' = IncidentIdOf(a)
            /\ attempt' = 1
            /\ pc' = "kickoff"
            /\ UNCHANGED response
       ELSE /\ pc' = "rejected"
            /\ response' = Failure(422, "ValidationError")
            /\ UNCHANGED <<incident_id, attempt>>
    /\ UNCHANGED <<last_exc, calls, sleeps, toolCalls, ssmSent, ssmFailed, result,
                   parsed_analyzer, parsed_executor, resolution, status, audit>>
    /\ UNCHANGED parseVars
    /\ UNCHANGED sideVars
    /\ UNCHANGED storeVars

\* tools.py:111-128: an agent of the running crew invokes SSM_Execute; the
\* command is sent, or the tool raises.
SsmRun(sent) ==
    /\ pc = "kickoff"
    /\ toolCalls < MaxToolCalls
    /\ toolCalls' = toolCalls + 1
    /\ IF sent THEN ssmSent' = ssmSent + 1 /\ UNCHANGED ssmFailed
               ELSE ssmFailed' = ssmFailed + 1 /\ UNCHANGED ssmSent
    /\ UNCHANGED <<pc, incident_id, attempt, last_exc, calls, sleeps, result,
                   parsed_analyzer, parsed_executor, resolution, status, audit, response>>
    /\ UNCHANGED parseVars
    /\ UNCHANGED sideVars
    /\ UNCHANGED storeVars

\* main.py:97 returns r, then main.py:254-291 up to the put_item call.
KickoffReturns(r) ==
    /\ pc = "kickoff"
    /\ calls' = Append(calls, "ok")
    /\ result' = r
    /\ LET x == Extract(r)
           m == Merge(x.pa, x.pe)
           d == Decide(m.d)
       IN /\ parsed_analyzer' = x.pa
          /\ parsed_executor' = x.pe
          /\ IF m.ok /\ d.ok
             THEN /\ resolution' = d.d
                  /\ status' = d.status
                  /\ pc' = "put_item"
                  /\ UNCHANGED response
             ELSE /\ resolution' = m.d
                  /\ pc' = "raised"
                  /\ response' = Failure(500, "Exception")
                  /\ UNCHANGED status
    /\ UNCHANGED <<incident_id, attempt, last_exc, sleeps, toolCalls, ssmSent, ssmFailed,
                   audit>>
    /\ UNCHANGED parseVars
    /\ UNCHANGED sideVars
    /\ UNCHANGED storeVars

\* WaitOf without the cap of max_interval
WaitOf_Uncapped(base_interval, max_interval, k) == base_interval * 2 ^ (k - 1)

\* main.py:100: min(max_interval, base_interval * (2 ** (attempt - 1)))
WaitOf(base_interval, max_interval, k) ==
    LET w == base_interval * 2 ^ (k - 1) IN IF max_interval < w THEN max_interval ELSE w

\* main.py:100, with the defaults process_alert leaves in place
Wait(k) == WaitOf(BaseInterval, MaxInterval, k)

\* MoreAttempts with one attempt more than `retries`
MoreAttempts_OneMore(k, retries) == k <= retries

\* main.py:95: range(1, retries + 1) has a value after k
MoreAttempts(k, retries) == k < retries

\* Retried with the authentication error among the retried kinds
Retried_WithAuth(e) == e \in AllowedExceptions \cup {"AuthenticationError"}

\* main.py:98
Retried(e) == e \in AllowedExceptions

\* Handled with the handler catching RateLimitError alone
Handled_RateLimitOnly(e) == e = "RateLimitError"

\* main.py:246
Handled(e) == e \in {"RateLimitError", "APIError"}

\* main.py:97 raises e: main.py:98-103 up to time.sleep, or the exception
\* leaves exponential_backoff_retry (main.py:104-106, or uncaught) and then
\* process_alert, whose handler (main.py:246) is for the transient kinds.
KickoffRaises(e) ==
    /\ pc = "kickoff"
    /\ calls' = Append(calls, e)
    /\ IF Retried(e)
       THEN /\ last_exc' = e
            /\ sleeps' = Append(sleeps, Wait(attempt))
            /\ pc' = "sleep"
            /\ UNCHANGED <<response, status, resolution>>
       ELSE IF Handled(e)
       THEN /\ pc' = "returned"
            /\ status' = "pending_human"
            /\ resolution' = LLMUnavailable
            /\ response' = Outcome("pending_human", incident_id, LLMUnavailable)
            /\ UNCHANGED <<last_exc, sleeps>>
       ELSE /\ pc' = "raised"
            /\ response' = Failure(500, e)
            /\ UNCHANGED <<last_exc, sleeps, status, resolution>>
    /\ UNCHANGED <<incident_id, attempt, toolCalls, ssmSent, ssmFailed, result,
                   parsed_analyzer, parsed_executor, audit>>
    /\ UNCHANGED parseVars
    /\ UNCHANGED sideVars
    /\ UNCHANGED storeVars

\* time.sleep returns: the next attempt, or main.py:107 and the handler of
\* main.py:246-251.
SleepReturns ==
    /\ pc = "sleep"
    /\ IF MoreAttempts(attempt, Retries)
       THEN /\ attempt' = attempt + 1
            /\ toolCalls' = 0
            /\ pc' = "kickoff"
            /\ UNCHANGED <<response, status, resolution>>
       ELSE IF Handled(last_exc)
       THEN /\ pc' = "returned"
            /\ status' = "pending_human"
            /\ resolution' = LLMUnavailable
            /\ response' = Outcome("pending_human", incident_id, LLMUnavailable)
            /\ UNCHANGED <<attempt, toolCalls>>
       ELSE /\ pc' = "raised"
            /\ response' = Failure(500, last_exc)
            /\ UNCHANGED <<attempt, toolCalls, status, resolution>>
    /\ UNCHANGED <<incident_id, last_exc, calls, sleeps, ssmSent, ssmFailed, result,
                   parsed_analyzer, parsed_executor, audit>>
    /\ UNCHANGED parseVars
    /\ UNCHANGED sideVars
    /\ UNCHANGED storeVars

\* main.py:293-301: put_item stores the item and the outcome is returned,
\* or put_item raises (the item cannot be serialized, or the service fails).
PutItem(stored) ==
    /\ pc = "put_item"
    /\ LET item == AuditItem(incident_id, resolution, status) IN
       IF stored /\ Serializable(item)
       THEN /\ audit' = Append(audit, item)
            /\ pc' = "returned"
            /\ response' = Outcome(status, incident_id, resolution)
       ELSE /\ pc' = "raised"
            /\ response' = Failure(500, IF Serializable(item) THEN "ClientError" ELSE "TypeError")
            /\ UNCHANGED audit
    /\ UNCHANGED <<incident_id, attempt, last_exc, calls, sleeps, toolCalls, ssmSent,
                   ssmFailed, result, parsed_analyzer, parsed_executor, resolution, status>>
    /\ UNCHANGED parseVars
    /\ UNCHANGED sideVars
    /\ UNCHANGED storeVars

Next ==
    \/ \E a \in [incident_id : IncidentIds, description : Descriptions,
                 severity : Severities] : SubmitAlert(a)
    \/ \E sent \in BOOLEAN : SsmRun(sent)
    \/ \E r \in Results : KickoffReturns(r)
    \/ \E e \in ExceptionKinds : KickoffRaises(e)
    \/ SleepReturns
    \/ \E stored \in BOOLEAN : PutItem(stored)

Spec == Init /\ [][Next]_vars

(***************************************************************************)
(* _parse_possible_json called on its own.                                 *)
(***************************************************************************)
InitParse ==
    /\ InitPipe
    /\ val \in ParseInputs
    /\ ret = NotCalled
    /\ InitSide

CallParse ==
    /\ ~ret.called
    /\ ret' = [called |-> TRUE, v |-> ParsePossibleJson(val)]
    /\ UNCHANGED val
    /\ UNCHANGED pipeVars
    /\ UNCHANGED sideVars
    /\ UNCHANGED storeVars

NextParse == CallParse

SpecParse == InitParse /\ [][NextParse]_vars

(***************************************************************************)
(* exponential_backoff_retry called on its own, with parameters of the     *)
(* caller's choice and the default allowed_exceptions.                     *)
(***************************************************************************)
MaxRetries == 6

\* the intervals considered, in seconds
BaseIntervals == {BaseInterval, 3}

MaxIntervals == {2, MaxInterval}

\* main.py:94, before the loop
BackoffCalled(retries, base_interval, max_interval) ==
    [pc |-> "called", retries |-> retries, base_interval |-> base_interval,
     max_interval |-> max_interval, attempt |-> 0, last_exc |-> "None",
     calls |-> <<>>, sleeps |-> <<>>, raised |-> "None"]

InitRetry ==
    /\ InitPipe
    /\ val = Text(<<>>)
    /\ ret = NotCalled
    /\ alert = NoAlert
    /\ rag = RagIdle
    /\ approvals = <<>>
    /\ store = StoreIdle
    /\ backoff \in {BackoffCalled(r, b, m) :
                      r \in 0..MaxRetries, b \in BaseIntervals, m \in MaxIntervals}

\* main.py:107: `raise last_exc`; raising None is a TypeError
RaiseLast(e) == IF e = "None" THEN "TypeError" ELSE e

\* main.py:95 and main.py:107: the loop takes its next value, or ends
BackoffLoop(b) ==
    IF MoreAttempts(b.attempt, b.retries)
    THEN [b EXCEPT !.attempt = b.attempt + 1, !.pc = "fn"]
    ELSE [b EXCEPT !.pc = "raised", !.raised = RaiseLast(b.last_exc)]

\* main.py:94-95
BackoffEnter ==
    /\ backoff.pc = "called"
    /\ backoff' = BackoffLoop(backoff)
    /\ UNCHANGED <<alert, rag, approvals>>
    /\ UNCHANGED storeVars
    /\ UNCHANGED pipeVars
    /\ UNCHANGED parseVars

\* main.py:97: fn() returns
FnReturns ==
    /\ backoff.pc = "fn"
    /\ backoff' = [backoff EXCEPT !.calls = Append(@, "ok"), !.pc = "returned"]
    /\ UNCHANGED <<alert, rag, approvals>>
    /\ UNCHANGED storeVars
    /\ UNCHANGED pipeVars
    /\ UNCHANGED parseVars

\* FnRaises without the wait after the last attempt
FnRaises_NoLastWait(e) ==
    /\ backoff.pc = "fn"
    /\ backoff' =
         IF Retried(e) /\ MoreAttempts(backoff.attempt, backoff.retries)
         THEN [backoff EXCEPT !.calls = Append(@, e), !.last_exc = e,
                              !.sleeps = Append(@, WaitOf(backoff.base_interval,
                                                          backoff.max_interval,
                                                          backoff.attempt)),
                              !.pc = "sleep"]
         ELSE [backoff EXCEPT !.calls = Append(@, e), !.pc = "raised", !.raised = e]
    /\ UNCHANGED <<alert, rag, approvals>>
    /\ UNCHANGED storeVars
    /\ UNCHANGED pipeVars
    /\ UNCHANGED parseVars

\* main.py:97 raises e: main.py:98-103 up to time.sleep, or main.py:104-106,
\* or e is not caught
FnRaises(e) ==
    /\ backoff.pc = "fn"
    /\ backoff' =
         IF Retried(e)
         THEN [backoff EXCEPT !.calls = Append(@, e), !.last_exc = e,
                              !.sleeps = Append(@, WaitOf(backoff.base_interval,
                                                          backoff.max_interval,
                                                          backoff.attempt)),
                              !.pc = "sleep"]
         ELSE [backoff EXCEPT !.calls = Append(@, e), !.pc = "raised", !.raised = e]
    /\ UNCHANGED <<alert, rag, approvals>>
    /\ UNCHANGED storeVars
    /\ UNCHANGED pipeVars
    /\ UNCHANGED parseVars

\* main.py:103: time.sleep returns
BackoffSleepReturns ==
    /\ backoff.pc = "sleep"
    /\ backoff' = BackoffLoop(backoff)
    /\ UNCHANGED <<alert, rag, approvals>>
    /\ UNCHANGED storeVars
    /\ UNCHANGED pipeVars
    /\ UNCHANGED parseVars

NextRetry ==
    \/ BackoffEnter
    \/ FnReturns
    \/ \E e \in ExceptionKinds : FnRaises(e)
    \/ BackoffSleepReturns

SpecRetry == InitRetry /\ [][NextRetry]_vars

(***************************************************************************)
(* RAGTool._run.  The outcomes of its four external calls are the inputs:  *)
(* get_opensearch_client, bedrock.invoke_model, client.search and the      *)
(* CrossEncoder.                                                           *)
(***************************************************************************)
MaxDocs == 4

\* tools.py:64: "size": 10
SearchSize == 10

DocNames == {"a", "b"}

Scores == {1, 2, 3}

HitCounts == {n \in 0..MaxDocs : n <= SearchSize}

RagInputs ==
    [client : {"ok", "RuntimeError"},
     embedding : {"vector", "empty", "ClientError"},
     search : {"ok", "TransportError"},
     predict : {"ok", "OSError"},
     hits : UNION {[1..n -> DocNames \X Scores] : n \in HitCounts}]

\* Rerank without the sort
Rerank_Unsorted(docs, scores) == SubSeq(docs, 1, IF Len(docs) < 3 THEN Len(docs) ELSE 3)

\* list.insert into a list sorted by score descending, after its equals
InsertDesc(sorted, x) ==
    LET before == {i \in 1..Len(sorted) : sorted[i][2] >= x[2]}
        k == Cardinality(before)
    IN SubSeq(sorted, 1, k) \o <<x>> \o SubSeq(sorted, k + 1, Len(sorted))

RECURSIVE SortedDesc(_, _)
\* sorted(..., key=lambda x: x[1], reverse=True): stable
SortedDesc(pairs, i) ==
    IF i = 0 THEN <<>> ELSE InsertDesc(SortedDesc(pairs, i - 1), pairs[i])

\* tools.py:89-92
Rerank(docs, scores) ==
    LET pairs == [i \in 1..Len(docs) |-> <<docs[i], scores[i]>>]
        reranked == SubSeq(SortedDesc(pairs, Len(pairs)), 1,
                           IF Len(pairs) < 3 THEN Len(pairs) ELSE 3)
    IN [i \in 1..Len(reranked) |-> reranked[i][1]]

\* tools.py:43-92, the body of the try: what was called, found and returned,
\* and the exception that ended it
RagBody(inp) ==
    LET r == [RagIdle EXCEPT !.pc = "returned"]
        docs == [i \in 1..Len(inp.hits) |-> inp.hits[i][1]]
        scores == [i \in 1..Len(inp.hits) |-> inp.hits[i][2]]
    IN IF inp.client # "ok"
       THEN [r EXCEPT !.calls = <<"client">>, !.exc = inp.client]
       ELSE IF inp.embedding \notin {"vector", "empty"}
       THEN [r EXCEPT !.calls = <<"client", "embed">>, !.embedding = "raises",
                      !.exc = inp.embedding]
       ELSE IF inp.embedding = "empty"
       THEN [r EXCEPT !.calls = <<"client", "embed">>, !.embedding = "empty"]
       ELSE IF inp.search # "ok"
       THEN [r EXCEPT !.calls = <<"client", "embed", "search">>, !.embedding = "vector",
                      !.exc = inp.search]
       ELSE IF docs = <<>>
       THEN [r EXCEPT !.calls = <<"client", "embed", "search">>, !.embedding = "vector"]
       ELSE IF inp.predict # "ok"
       THEN [r EXCEPT !.calls = <<"client", "embed", "search", "rerank">>,
                      !.embedding = "vector", !.docs = docs, !.exc = inp.predict]
       ELSE [r EXCEPT !.calls = <<"client", "embed", "search", "rerank">>,
                      !.embedding = "vector", !.docs = docs, !.scores = scores,
                      !.out = Rerank(docs, scores)]

\* Caught with a handler that catches nothing
Caught_Nothing(exc) == FALSE

\* tools.py:94: `except Exception` catches what the four calls raise
Caught(exc) == exc \in {"RuntimeError", "ClientError", "TransportError", "OSError"}

\* tools.py:42-96
RagRun(inp) ==
    /\ rag.pc = "idle"
    /\ LET b == RagBody(inp) IN
       rag' = IF b.exc = "None" THEN b
              ELSE IF Caught(b.exc) THEN [b EXCEPT !.out = <<>>]
              ELSE [b EXCEPT !.pc = "raised", !.raised = TRUE]
    /\ UNCHANGED <<alert, backoff, approvals>>
    /\ UNCHANGED storeVars
    /\ UNCHANGED pipeVars
    /\ UNCHANGED parseVars

\* one call per behaviour
NextRag == rag.pc = "idle" /\ \E inp \in RagInputs : RagRun(inp)

SpecRag == Init /\ [][NextRag]_vars

(***************************************************************************)
(* One POST /process_alert from the request body on: the body is           *)
(* validated, and while the crew runs its Runbook Selector calls RAG_Tool. *)
(* Each call made returns or raises, which the fairness condition states.  *)
(***************************************************************************)
RunAlerts ==
    [incident_id : {None, Str("inc-1")}, description : Descriptions, severity : Severities]

\* RAG_Tool outcomes: no hit, no client, one document
RunRagInputs ==
    {inp \in RagInputs :
        /\ inp.embedding = "vector" /\ inp.search = "ok" /\ inp.predict = "ok"
        /\ \/ inp.client = "ok" /\ inp.hits = <<>>
           \/ inp.client = "RuntimeError" /\ inp.hits = <<>>
           \/ inp.client = "ok" /\ inp.hits = << <<"a", 2>> >>}

RunResults ==
    {PlainOutput}
    \cup {CrewOutput(Tasks(Str("Resolution Generator"), a, Str("Fix Executor"), e, e)) :
            a \in {<<"{", "}">>,
                    <<"{", "confidence:", "null", "}">>},
            e \in {<<"{", "}">>,
                    <<"{", "executed:", "true", ",", "command_id:", "'cmd-1'", "}">>}}

InitRun ==
    /\ InitPipe
    /\ val = Text(<<>>)
    /\ ret = NotCalled
    /\ alert \in RunAlerts
    /\ backoff = BackoffIdle
    /\ rag = RagIdle
    /\ approvals = <<>>
    /\ store = StoreIdle

\* main.py:182: FastAPI validates the body and calls process_alert
ReceiveAlert == SubmitAlert(alert)

\* main.py:199-207: the Runbook Selector calls RAG_Tool while the crew runs
RagCalled(inp) == pc = "kickoff" /\ RagRun(inp)

NextRun ==
    \/ ReceiveAlert
    \/ \E inp \in RunRagInputs : RagCalled(inp)
    \/ \E sent \in BOOLEAN : SsmRun(sent)
    \/ \E r \in RunResults : KickoffReturns(r)
    \/ \E e \in ExceptionKinds : KickoffRaises(e)
    \/ SleepReturns
    \/ \E stored \in BOOLEAN : PutItem(stored)

SpecRun == InitRun /\ [][NextRun]_vars /\ WF_vars(NextRun)

(***************************************************************************)
(* POST /approve/{incident_id}, served against an audit store that earlier *)
(* runs may have written to.                                               *)
(***************************************************************************)
MaxApprovals == 2

\* main.py:173-175: approved is a bool, tweaks a mapping or None
ApproveRequests ==
    [approved : BOOLEAN,
     tweaks : {None, EmptyDict, Dict("resolution" :> Str("Scale RDS"))}]

ApproveIds == {"inc-1", "inc-2"}

\* the audit stores considered: empty, or holding the record of one run
AuditStores == {<<>>, <<AuditItem("inc-1", Defaults, "pending_human")>>}

InitApprove ==
    /\ pc = "idle"
    /\ incident_id = ""
    /\ attempt = 0
    /\ last_exc = "None"
    /\ calls = <<>>
    /\ sleeps = <<>>
    /\ toolCalls = 0
    /\ ssmSent = 0
    /\ ssmFailed = 0
    /\ result = PlainOutput
    /\ parsed_analyzer = EmptyDict
    /\ parsed_executor = EmptyDict
    /\ resolution = <<>>
    /\ status = ""
    /\ audit \in AuditStores
    /\ response = NoResponse
    /\ val = Text(<<>>)
    /\ ret = NotCalled
    /\ InitSide

\* ApproveResponse answering every request with the approval
ApproveResponse_Always(id, request) ==
    [code |-> 200, detail |-> "", status |-> "approved", incident_id |-> id,
     tweaks |-> request.tweaks]

\* main.py:310-312
ApproveResponse(id, request) ==
    IF ~request.approved
    THEN [code |-> 400, detail |-> "Approval rejected", status |-> "", incident_id |-> "",
          tweaks |-> None]
    ELSE [code |-> 200, detail |-> "", status |-> "approved", incident_id |-> id,
          tweaks |-> request.tweaks]

\* main.py:308-312
Approve(id, request) ==
    /\ Len(approvals) < MaxApprovals
    /\ approvals' = Append(approvals, [incident_id |-> id, request |-> request,
                                        response |-> ApproveResponse(id, request)])
    /\ UNCHANGED <<alert, backoff, rag>>
    /\ UNCHANGED storeVars
    /\ UNCHANGED pipeVars
    /\ UNCHANGED parseVars

NextApprove == \E id \in ApproveIds, request \in ApproveRequests : Approve(id, request)

SpecApprove == InitApprove /\ [][NextApprove]_vars

(***************************************************************************)
(* Two process_alert runs that have decided their outcome and write it to  *)
(* the audit table, whose primary key is (incident_id, timestamp)          *)
(* (cdk/stack.py:30-34).  The timestamp is the reading of the wall clock   *)
(* at the write; the clock may or may not have moved between two writes.   *)
(***************************************************************************)
MaxTicks == 2

\* microseconds in one step of the clock
TickMicros == 500000

Digits == <<"0", "1", "2", "3", "4", "5", "6", "7", "8", "9">>

\* datetime.isoformat() of the t-th clock value: the fraction is left out
\* when the microsecond is 0
IsoFormat(t) ==
    LET micros == (t * TickMicros) % 1000000
        secs == (t * TickMicros) \div 1000000
    IN Str("2026-01-01T00:00:0" \o Digits[secs + 1]
           \o (IF micros = 0 THEN "" ELSE ".500000"))

\* outcomes a run may have decided at main.py:291
DecidedOutcomes ==
    {Decide(Defaults), Decide([Defaults EXCEPT !["executed"] = PyTrue])}

StoreRuns ==
    {[pc |-> "put_item", incident_id |-> id, resolution |-> o.d, status |-> o.status,
      response |-> NoResponse] : id \in {"inc-1", "inc-2"}, o \in DecidedOutcomes}

InitStore ==
    /\ InitPipe
    /\ val = Text(<<>>)
    /\ ret = NotCalled
    /\ alert = NoAlert
    /\ backoff = BackoffIdle
    /\ rag = RagIdle
    /\ approvals = <<>>
    /\ store \in {[table |-> <<>>, now |-> 0, runs |-> <<r1, r2>>] : r1, r2 \in StoreRuns}

\* the primary key of an item
KeyOf(item) == <<item.m["incident_id"].s, item.m["timestamp"].s>>

\* DynamoDB PutItem: the item replaces the one with the same primary key
PutByKey(table, item) ==
    [k \in DOMAIN table \cup {KeyOf(item)} |-> IF k = KeyOf(item) THEN item ELSE table[k]]

\* the wall clock moves on
Tick ==
    /\ store.now < MaxTicks
    /\ store' = [store EXCEPT !.now = @ + 1]
    /\ UNCHANGED sideVars
    /\ UNCHANGED pipeVars
    /\ UNCHANGED parseVars

\* main.py:293-301 in run r: the item is stored under its key and the
\* outcome returned, or put_item raises
PutItemOf(r, stored) ==
    /\ r \in 1..Len(store.runs)
    /\ store.runs[r].pc = "put_item"
    /\ LET run == store.runs[r]
           item == AuditItemAt(run.incident_id, IsoFormat(store.now), run.resolution,
                               run.status)
       IN store' =
            IF stored /\ Serializable(item)
            THEN [store EXCEPT !.table = PutByKey(@, item),
                               !.runs[r].pc = "returned",
                               !.runs[r].response =
                                   Outcome(run.status, run.incident_id, run.resolution)]
            ELSE [store EXCEPT !.runs[r].pc = "raised",
                               !.runs[r].response = Failure(500, "ClientError")]
    /\ UNCHANGED sideVars
    /\ UNCHANGED pipeVars
    /\ UNCHANGED parseVars

NextStore ==
    \/ Tick
    \/ \E r \in {1, 2}, stored \in BOOLEAN : PutItemOf(r, stored)

SpecStore == InitStore /\ [][NextStore]_vars

(***************************************************************************)
(* convert_floats called on its own, on the values JSON and process_alert  *)
(* can build: scalars, lists and mappings, nested.                         *)
(***************************************************************************)
MaxItems == 2

ConvertScalars == {Float(85), Float(70), NaN, PyInt(1), Str("a"), PyTrue, None}

ConvertFlat ==
    ConvertScalars
    \cup {List(l) : l \in UNION {[1..n -> ConvertScalars] : n \in 0..MaxItems}}
    \cup {Dict(m) : m \in UNION {[K -> ConvertScalars] :
                                     K \in SUBSET {"confidence", "executed"}}}

ConvertInputs ==
    {Obj(v) : v \in ConvertFlat}
    \cup {Obj(List(<<v>>)) : v \in ConvertFlat}
    \cup {Obj(Dict("resolution" :> v)) : v \in ConvertFlat}
    \cup {Obj(Dict([incident_id |-> Str("inc-1"), timestamp |-> Str("now"),
                     resolution |-> v, actions |-> Str("str(result)"),
                     human_intervention |-> PyFalse])) : v \in ConvertFlat}

InitConvert ==
    /\ InitPipe
    /\ val \in ConvertInputs
    /\ ret = NotCalled
    /\ InitSide

\* main.py:41-48: the result is a new value, the argument is left as it was
CallConvert ==
    /\ ~ret.called
    /\ ret' = [called |-> TRUE, v |-> convert_floats(val.pv)]
    /\ UNCHANGED val
    /\ UNCHANGED pipeVars
    /\ UNCHANGED sideVars
    /\ UNCHANGED storeVars

NextConvert == CallConvert

SpecConvert == InitConvert /\ [][NextConvert]_vars

(***************************************************************************)
(* Properties.                                                             *)
(***************************************************************************)
Returned == pc = "returned"

Ended == pc \in {"returned", "raised"}

\* the last reasoning call returned a result
GotResult == calls # <<>> /\ calls[Len(calls)] = "ok"

\* every attempt failed with a rate-limit or service error
Exhausted ==
    /\ Len(calls) = Retries
    /\ \A i \in 1..Len(calls) : calls[i] \in {"RateLimitError", "APIError"}

IsNumber(v) == v.t \in {"float", "int"}

\* C1: the status returned with a resolution follows the final status rule:
\* resolved when executed is true; otherwise pending_human when confidence is
\* below 0.8 and resolved when it is 0.8 or more; it is never anything else.
C1_FinalStatusRule ==
    Returned =>
        LET res == response.resolution
            c == FloatOf(res["confidence"])
            executed == res["executed"] = PyTrue
        IN /\ response.status \in {"resolved", "pending_human"}
           /\ c.ok /\ c.v.t = "float"
           /\ executed => response.status = "resolved"
           /\ (~executed /\ c.v.n < 80) => response.status = "pending_human"
           /\ (~executed /\ c.v.n >= 80) => response.status = "resolved"

\* a run returned resolved without execution at a confidence of exactly 0.8
C1_Witness ==
    /\ Returned
    /\ GotResult
    /\ response.resolution["executed"] = PyFalse
    /\ response.resolution["confidence"] = Float(80)
    /\ response.status = "resolved"

\* the confidence the stages reported, before the final decision
ReportedConfidence == FloatOf(Merge(parsed_analyzer, parsed_executor).d["confidence"]).v

\* C2: when the merged resolution has executed true, the returned resolution
\* and the stored one carry the larger of the reported confidence and 0.95.
C2_ExecutedConfidence ==
    (Returned /\ response.resolution["executed"] = PyTrue) =>
        LET c == response.resolution["confidence"] IN
        /\ c.t = "float" /\ c.n >= 95
        /\ c.n = (IF ReportedConfidence.n < 95 THEN 95 ELSE ReportedConfidence.n)
        /\ Len(audit) = 1
        /\ audit[1].m["resolution"].m["confidence"] = Mk("Decimal", c.n, "", <<>>, <<>>)

\* a run returned executed true although the stages reported 0.5
C2_Witness ==
    /\ Returned
    /\ response.resolution["executed"] = PyTrue
    /\ ReportedConfidence = Float(50)
    /\ response.resolution["confidence"] = Float(95)

\* C3: when every attempt of the reasoning call fails with a transient
\* error, the request ends with the "LLM unavailable" outcome (pending_human,
\* confidence 0.0, executed false) and not with an exception.
C3_LLMUnavailable ==
    (Ended /\ Exhausted) =>
        /\ Returned
        /\ response.code = 200
        /\ response.status = "pending_human"
        /\ response.resolution["issue"] = Str("LLM unavailable")
        /\ response.resolution["confidence"] = Float(0)
        /\ response.resolution["executed"] = PyFalse

\* a run returned after three transient failures, the last a service error
C3_Witness ==
    /\ Returned
    /\ Exhausted
    /\ calls[Retries] = "APIError"
    /\ response.status = "pending_human"

\* C4: a run that exhausts its retries has written exactly one audit record
\* (its incident_id, human_intervention true) when it returns.
C4_AuditOnExhaustion ==
    (Returned /\ Exhausted) =>
        /\ Len(audit) = 1
        /\ audit[1].m["incident_id"] = Str(incident_id)
        /\ audit[1].m["human_intervention"] = PyTrue

\* C5: a run whose reasoning call returned a result ends with exactly one
\* audit record, written after the status was decided.
C5_OneAuditRecord ==
    /\ Len(audit) <= 1
    /\ Len(audit) = 1 => status \in {"resolved", "pending_human"}
    /\ (Ended /\ GotResult) => Len(audit) = 1

\* the Analyze stage's recovered confidence is a number not above 0.8
LowAnalyzeConfidence ==
    /\ "confidence" \in DOMAIN parsed_analyzer.m
    /\ IsNumber(parsed_analyzer.m["confidence"])
    /\ parsed_analyzer.m["confidence"].n <= 80

\* C6: in a run whose Analyze confidence does not exceed 0.8 the remote
\* command executor is not invoked and the merged resolution has executed
\* false.
C6_ExecutionGate ==
    (GotResult /\ pc \in {"put_item", "returned"} /\ LowAnalyzeConfidence) =>
        /\ ssmSent + ssmFailed = 0
        /\ resolution["executed"] = PyFalse

\* C7: when the Execute stage's output recovers to the empty mapping, the
\* merged resolution has executed false.
C7_RecoveryFailureNoExecution ==
    (GotResult /\ pc \in {"put_item", "returned"} /\ parsed_executor = EmptyDict) =>
        resolution["executed"] = PyFalse

\* C8: a returned resolution has a confidence within [0, 1] and a boolean
\* executed.
C8_ResolutionRanges ==
    Returned =>
        LET res == response.resolution IN
        /\ IsNumber(res["confidence"])
        /\ res["confidence"].n >= 0
        /\ res["confidence"].n <= 100
        /\ res["executed"] \in {PyTrue, PyFalse}

\* C9: _parse_possible_json returns a mapping for every input: a mapping
\* unchanged, a text's parsed mapping, and the empty mapping for an empty or
\* absent input and for a text neither parse accepts.
C9_AlwaysMapping ==
    ret.called =>
        /\ ret.v.t = "dict"
        /\ (val.k = "obj" /\ val.pv.t = "dict") => ret.v = val.pv
        /\ (val.k = "obj" /\ val.pv.t # "dict") => ret.v = EmptyDict
        /\ (val.k = "str" /\ JsonLoads(val.txt).ok /\ JsonLoads(val.txt).v.t = "dict")
              => ret.v = JsonLoads(val.txt).v
        /\ (val.k = "str" /\ ~JsonLoads(val.txt).ok
              /\ (~BraceSpan(val.txt).found \/ ~JsonLoads(BraceSpan(val.txt).txt).ok))
              => ret.v = EmptyDict

BraceFree(t) == \A i \in 1..Len(t) : t[i] \notin {"{", "}"}

IsObjectText(t) == JsonLoads(t).ok /\ JsonLoads(t).v.t = "dict"

\* C10: a text made of brace-free prose, one JSON object and brace-free
\* prose gives that object; a text holding two objects with prose between
\* them gives the empty mapping.
C10_FallbackOrder ==
    (ret.called /\ val.k = "str") =>
        LET t == val.txt
            n == Len(val.txt)
        IN /\ \A a \in 1..n : \A b \in a..n :
                (/\ BraceFree(SubSeq(t, 1, a - 1))
                 /\ IsObjectText(SubSeq(t, a, b))
                 /\ BraceFree(SubSeq(t, b + 1, n)))
                => ret.v = JsonLoads(SubSeq(t, a, b)).v
           /\ \A a \in 1..n : \A b \in a..n : \A c \in (b + 2)..n : \A d \in c..n :
                (/\ BraceFree(SubSeq(t, 1, a - 1))
                 /\ IsObjectText(SubSeq(t, a, b))
                 /\ BraceFree(SubSeq(t, b + 1, c - 1))
                 /\ IsObjectText(SubSeq(t, c, d))
                 /\ BraceFree(SubSeq(t, d + 1, n)))
                => ret.v = EmptyDict

\* both recoveries of the last result left an empty mapping
BothEmpty == GotResult /\ parsed_analyzer = EmptyDict /\ parsed_executor = EmptyDict

\* the documented defaults, written out
DocumentedDefaults ==
    [issue |-> Str("Unknown"), root_cause |-> Str("Unknown"), impact |-> Str("Unknown"),
     resolution |-> Str("Manual investigation required"),
     confidence |-> Float(70), executed |-> PyFalse]

\* C11: when the recovery of the Analyze output and of the Execute output
\* both leave an empty mapping, the resolution computed is the documented
\* defaults unchanged with status pending_human, that is what process_alert
\* returns, and nothing before the audit write raises.
C11_EmptyRecoveryDefaults ==
    BothEmpty =>
        /\ resolution = DocumentedDefaults
        /\ status = "pending_human"
        /\ pc \in {"put_item", "returned", "raised"}
        /\ pc = "raised" => response = Failure(500, "ClientError")
        /\ Returned => response = Outcome("pending_human", incident_id, DocumentedDefaults)

\* a run whose Analyze and Execute outputs were both the literal {} returned
C11_Witness ==
    /\ Returned
    /\ BothEmpty
    /\ result.hasTasks
    /\ result.tasks[3].raw = Text(<<"{", "}">>)
    /\ result.tasks[4].raw = Text(<<"{", "}">>)
    /\ response.resolution = DocumentedDefaults

Transient == {"RateLimitError", "APIError"}

\* C12: the wrapped call is invoked at most `retries` times; a successful
\* invocation is the last one and its result is returned at once; and when
\* every one of the `retries` attempts failed with a transient error, the
\* wrapper raises the error of the last attempt.
C12_AttemptsAndLastError ==
    LET n == Len(backoff.calls) IN
    /\ n <= backoff.retries
    /\ \A i \in 1..n : backoff.calls[i] = "ok" => (i = n /\ backoff.pc = "returned")
    /\ backoff.pc = "returned" => (n >= 1 /\ backoff.calls[n] = "ok")
    /\ (backoff.pc \in {"returned", "raised"} /\ n >= 1
          /\ \A i \in 1..n : backoff.calls[i] \in Transient) =>
            /\ n = backoff.retries
            /\ backoff.pc = "raised"
            /\ backoff.raised = backoff.calls[n]

\* three attempts failed and the error of the third was raised
C12_Witness ==
    /\ backoff.pc = "raised"
    /\ backoff.retries = 3
    /\ backoff.calls = <<"RateLimitError", "RateLimitError", "APIError">>
    /\ backoff.raised = "APIError"

\* min(max_interval, base_interval * 2^(k-1)), by doubling
RECURSIVE Doubled(_, _, _)
Doubled(base_interval, max_interval, k) ==
    IF k = 1 THEN (IF base_interval < max_interval THEN base_interval ELSE max_interval)
    ELSE LET d == 2 * Doubled(base_interval, max_interval, k - 1)
         IN IF d < max_interval THEN d ELSE max_interval

DefaultWaits == <<1, 2, 4, 8, 10, 10, 10, 10>>

\* C13: the wait after the k-th failed transient attempt is
\* min(max_interval, base_interval * 2^(k-1)): one wait per failed attempt,
\* never above max_interval, never below the wait before it, twice the wait
\* before it while that stays under the cap, and 1, 2, 4, 8, 10, 10, ...
\* with the defaults.
C13_BackoffWaits ==
    LET w == backoff.sleeps
        b == backoff.base_interval
        m == backoff.max_interval
    IN /\ Len(w) = Cardinality({i \in 1..Len(backoff.calls) : backoff.calls[i] \in Transient})
       /\ \A k \in 1..Len(w) :
            /\ w[k] = Doubled(b, m, k)
            /\ (b * 2 ^ (k - 1) <= m) => w[k] = b * 2 ^ (k - 1)
            /\ (b * 2 ^ (k - 1) > m) => w[k] = m
            /\ w[k] <= m
            /\ k > 1 => w[k] >= w[k - 1]
            /\ (k > 1 /\ 2 * w[k - 1] <= m) => w[k] = 2 * w[k - 1]
            /\ (b = 1 /\ m = 10 /\ k <= Len(DefaultWaits)) => w[k] = DefaultWaits[k]

\* six transient failures with the defaults were followed by the waits
\* 1, 2, 4, 8, 10, 10
C13_Witness ==
    /\ backoff.base_interval = 1
    /\ backoff.max_interval = 10
    /\ backoff.sleeps = <<1, 2, 4, 8, 10, 10>>

\* C14: an authentication error, or any error that is neither a rate-limit
\* nor a service error, raised by the reasoning call is the last thing the
\* run does: no attempt and no wait follows it (one wait per earlier failed
\* attempt only), and process_alert ends in that very exception, with no
\* pending_human outcome and no status.
C14_NoRetryOfOtherErrors ==
    \A i \in 1..Len(calls) :
        calls[i] \in {"AuthenticationError", "Exception"} =>
            /\ i = Len(calls)
            /\ \A j \in 1..(i - 1) : calls[j] \in Transient
            /\ Len(sleeps) = i - 1
            /\ pc = "raised"
            /\ response = Failure(500, calls[i])
            /\ status = ""

\* an authentication error on the second attempt ended the request
C14_Witness ==
    /\ calls = <<"RateLimitError", "AuthenticationError">>
    /\ sleeps = <<1>>
    /\ pc = "raised"
    /\ response.code = 500
    /\ response.exc = "AuthenticationError"

\* the reranker scored the documents found
Reranked == rag.exc = "None" /\ rag.calls = <<"client", "embed", "search", "rerank">>

\* C15: the list returned has at most 3 documents, each one of the at most
\* 10 found by the search; when the reranker scored them, the list is the
\* top min(3, n) of the n found: it takes min(3, n) distinct positions of
\* the search result, in order of score descending, and no position left out
\* has a score above one taken.
C15_TopThreeByScore ==
    LET n == Len(rag.docs)
        k == Len(rag.out)
    IN /\ k <= 3
       /\ n <= 10
       /\ \A i \in 1..k : \E j \in 1..n : rag.out[i] = rag.docs[j]
       /\ Reranked =>
            /\ k = (IF n < 3 THEN n ELSE 3)
            /\ \E f \in [1..k -> 1..n] :
                 /\ \A i, j \in 1..k : i # j => f[i] # f[j]
                 /\ \A i \in 1..k : rag.out[i] = rag.docs[f[i]]
                 /\ \A i \in 1..(k - 1) : rag.scores[f[i]] >= rag.scores[f[i + 1]]
                 /\ \A j \in 1..n : (\A i \in 1..k : f[i] # j) =>
                        \A i \in 1..k : rag.scores[j] <= rag.scores[f[i]]

\* of four documents found, the three best came back, best first
C15_Witness ==
    /\ rag.pc = "returned"
    /\ rag.docs = <<"a", "b", "a", "b">>
    /\ rag.scores = <<1, 3, 2, 3>>
    /\ rag.out = <<"b", "b", "a">>

\* C16: RAGTool._run never raises: when the client setup, the embedding
\* call, the search or the reranker fails, it returns the empty list; with an
\* empty embedding it returns the empty list and has made no search; with no
\* document found it returns the empty list and has not called the reranker.
C16_RagNeverRaises ==
    rag.pc # "idle" =>
        /\ rag.pc = "returned"
        /\ ~rag.raised
        /\ rag.exc # "None" => rag.out = <<>>
        /\ rag.embedding = "empty" =>
              (rag.out = <<>> /\ rag.calls = <<"client", "embed">>)
        /\ (rag.exc = "None" /\ rag.calls = <<"client", "embed", "search">>) =>
              (rag.docs = <<>> /\ rag.out = <<>>)
        /\ (rag.exc = "None" /\ rag.docs = <<>>) =>
              (rag.out = <<>> /\ \A i \in 1..Len(rag.calls) : rag.calls[i] # "rerank")

\* the reranker failed on the documents found and the empty list came back
C16_Witness ==
    /\ rag.pc = "returned"
    /\ rag.exc = "OSError"
    /\ rag.calls = <<"client", "embed", "search", "rerank">>
    /\ rag.docs # <<>>
    /\ rag.out = <<>>

\* the retrieval of the run came back with no document
NoDocuments == rag.pc = "returned" /\ rag.out = <<>>

\* C17: a run whose retrieval returned no document, and whose reasoning
\* call returned a result, ends by returning a terminal status and a
\* resolution that carries confidence and executed.
C17_ZeroDocsRunReturns ==
    (Ended /\ NoDocuments /\ GotResult) =>
        /\ Returned
        /\ response.status \in {"resolved", "pending_human"}
        /\ {"confidence", "executed"} \subseteq DOMAIN response.resolution

\* the description is empty or has whitespace only
Blank(d) == \A i \in 1..Len(d) : d[i] \in {" ", "\t"}

InvalidAlert == Blank(alert.description) \/ alert.severity \notin {"low", "medium", "high"}

\* C19: an alert whose description is empty or only whitespace, or whose
\* severity is not low, medium or high, is answered with a client error
\* and nothing else happens for it: no reasoning call, no retrieval, no
\* remote command, no audit record; every other alert enters the pipeline.
C19_InvalidAlertRejected ==
    /\ InvalidAlert =>
          /\ pc \in {"idle", "rejected"}
          /\ pc = "rejected" => response = Failure(422, "ValidationError")
          /\ calls = <<>>
          /\ rag.pc = "idle"
          /\ toolCalls = 0 /\ ssmSent = 0 /\ ssmFailed = 0
          /\ audit = <<>>
    /\ ~InvalidAlert => pc # "rejected"

\* a whitespace-only description with a valid severity was rejected
C19_Witness ==
    /\ alert.description = <<" ", "\t">>
    /\ alert.severity = "high"
    /\ pc = "rejected"
    /\ response.code = 422

\* C18: every approve request with approved false was answered with HTTP
\* 400 and the detail "Approval rejected", every one with approved true with
\* status approved, its own incident_id and its own tweaks; and no step of
\* an approve request changes the audit store.
C18_ApproveLeavesAudit ==
    /\ [](\A i \in 1..Len(approvals) :
            LET e == approvals[i] IN
            /\ ~e.request.approved =>
                  (e.response.code = 400 /\ e.response.detail = "Approval rejected")
            /\ e.request.approved =>
                  /\ e.response.code = 200
                  /\ e.response.status = "approved"
                  /\ e.response.incident_id = e.incident_id
                  /\ e.response.tweaks = e.request.tweaks)
    /\ [][approvals' # approvals => audit' = audit]_vars

\* with one record in the audit store, a rejection was answered with 400 and
\* then an approval with tweaks was accepted
C18_Witness ==
    /\ Len(audit) = 1
    /\ Len(approvals) = 2
    /\ ~approvals[1].request.approved
    /\ approvals[1].response.code = 400
    /\ approvals[2].request.approved
    /\ approvals[2].request.tweaks = Dict("resolution" :> Str("Scale RDS"))
    /\ approvals[2].response.status = "approved"

\* the run computed its final status, so the audit write was attempted
Decided == GotResult /\ status # ""

\* C20: a run that computed its outcome returns it (status, incident_id and
\* resolution), whether the audit write succeeded or raised.
C20_AuditFailureDoesNotBlock ==
    (Ended /\ Decided) =>
        /\ Returned
        /\ response = Outcome(status, incident_id, resolution)

\* no attempt of the reasoning call reported an authentication failure
NoAuthFailure == \A i \in 1..Len(calls) : calls[i] # "AuthenticationError"

\* C21: a request with a valid alert in which the reasoning service reported
\* no authentication failure ends with a structured outcome that carries a
\* status, never with an exception.
C21_StructuredOutcome ==
    (Ended /\ NoAuthFailure) =>
        /\ Returned
        /\ response.code = 200
        /\ response.status \in {"resolved", "pending_human"}

\* the records the audit table holds for an incident
RecordsOf(id) == {k \in DOMAIN store.table : k[1] = id}

\* C22: when two runs for the same incident_id have both written their
\* audit record and returned, the table holds two records for that
\* incident_id.
C22_TwoRunsTwoRecords ==
    (/\ Len(store.runs) = 2
     /\ store.runs[1].pc = "returned"
     /\ store.runs[2].pc = "returned"
     /\ store.runs[1].incident_id = store.runs[2].incident_id) =>
        Cardinality(RecordsOf(store.runs[1].incident_id)) = 2

RECURSIVE HasFloat(_)
\* a float at some depth of the value
HasFloat(v) ==
    \/ v.t \in {"float", "nan"}
    \/ \E k \in DOMAIN v.m : HasFloat(v.m[k])
    \/ \E i \in 1..Len(v.l) : HasFloat(v.l[i])

RECURSIVE FloatsToDecimals(_, _)
\* b is a with each float replaced by the decimal of the same digits, and
\* nothing else changed
FloatsToDecimals(a, b) ==
    CASE a.t = "float" -> b.t = "Decimal" /\ b.n = a.n
      [] a.t = "nan" -> b.t = "DecimalNaN"
      [] a.t = "dict" ->
            /\ b.t = "dict"
            /\ DOMAIN b.m = DOMAIN a.m
            /\ \A k \in DOMAIN a.m : FloatsToDecimals(a.m[k], b.m[k])
      [] a.t = "list" ->
            /\ b.t = "list"
            /\ Len(b.l) = Len(a.l)
            /\ \A i \in 1..Len(a.l) : FloatsToDecimals(a.l[i], b.l[i])
      [] OTHER -> b = a

\* C23: the value convert_floats returns holds no float at any depth: every
\* float of the argument is replaced by the decimal of its string form (0.85
\* by the decimal 0.85), every other value and the nesting are as in the
\* argument; and the call leaves its argument as it was.
C23_NoFloatStored ==
    /\ [](ret.called => (~HasFloat(ret.v) /\ FloatsToDecimals(val.pv, ret.v)))
    /\ [][val' = val]_vars

\* an audit item whose resolution holds the confidence 0.85 was converted
C23_Witness ==
    /\ ret.called
    /\ val.pv.t = "dict"
    /\ DOMAIN val.pv.m = {"incident_id", "timestamp", "resolution", "actions",
                           "human_intervention"}
    /\ val.pv.m["resolution"] = Dict("confidence" :> Float(85))
    /\ ret.v.m["resolution"].m["confidence"] = Mk("Decimal", 85, "", <<>>, <<>>)

\* an empty recovered field: the empty string or null
EmptyField(v) == v \in {None, Str("")}

\* stage mapping p recovered field k, with a value that is not empty
Recovered(p, k) == p.t = "dict" /\ k \in DOMAIN p.m

RecoveredNonEmpty(p, k) == Recovered(p, k) /\ ~EmptyField(p.m[k])

\* C24: in a returned resolution, a field the Execute stage recovered as
\* empty holds the Analyze stage's non-empty value, or else the default; a
\* field the Analyze stage recovered as empty, and the Execute stage did not
\* recover, holds the default.
C24_EmptyFieldsDoNotOverride ==
    (Returned /\ GotResult) =>
        \A k \in DOMAIN Defaults :
            /\ (Recovered(parsed_executor, k) /\ EmptyField(parsed_executor.m[k])) =>
                  response.resolution[k] =
                      (IF RecoveredNonEmpty(parsed_analyzer, k) THEN parsed_analyzer.m[k]
                       ELSE Defaults[k])
            /\ (/\ Recovered(parsed_analyzer, k) /\ EmptyField(parsed_analyzer.m[k])
                /\ ~Recovered(parsed_executor, k)) =>
                  response.resolution[k] = Defaults[k]

\* the value precedence gives field k: Execute, else Analyze, else default
ByPrecedence(k) ==
    IF Recovered(parsed_executor, k) THEN parsed_executor.m[k]
    ELSE IF Recovered(parsed_analyzer, k) THEN parsed_analyzer.m[k]
    ELSE Defaults[k]

\* the texts of l with commas between them, for the lists considered
CommaJoined(l) ==
    CASE Len(l) = 0 -> ""
      [] Len(l) = 1 -> l[1].s
      [] Len(l) = 2 -> l[1].s \o "," \o l[2].s
      [] OTHER -> JoinFrom(l, 1)

\* C25: the merged resolution has the default fields and the recovered
\* ones; each field holds the Execute stage's recovered value, else the
\* Analyze stage's, else the default; a command_id recovered as a list of
\* texts is the comma-joined text, and command_id is never a list.  (The
\* confidence of an executed resolution is the subject of C2.)
C25_MergePrecedence ==
    Decided =>
        /\ DOMAIN resolution =
              DOMAIN Defaults \cup DOMAIN parsed_analyzer.m \cup DOMAIN parsed_executor.m
        /\ \A k \in DOMAIN resolution :
              IF k = "command_id" /\ ByPrecedence(k).t = "list"
              THEN resolution[k] = Str(CommaJoined(ByPrecedence(k).l))
              ELSE IF k = "confidence" /\ resolution["executed"] = PyTrue
              THEN TRUE
              ELSE resolution[k] = ByPrecedence(k)
        /\ "command_id" \in DOMAIN resolution => resolution["command_id"].t # "list"
        /\ Returned => response.resolution = resolution

\* both stages recovered executed and the Execute stage's value was kept;
\* a run returned two command ids joined by a comma
C25_Witness ==
    /\ Returned
    /\ Recovered(parsed_analyzer, "executed")
    /\ parsed_analyzer.m["executed"] = PyTrue
    /\ Recovered(parsed_executor, "command_id")
    /\ parsed_executor.m["command_id"] = List(<<Str("cmd-1"), Str("cmd-2")>>)
    /\ response.resolution["command_id"] = Str("cmd-1,cmd-2")

\* the alert carries an incident_id that is not empty
SuppliedId == alert.incident_id.t = "str" /\ alert.incident_id.s # ""

\* C26: the audit record of a run that returned agrees with the outcome
\* returned: the incident_id of both is the alert's when the alert carries a
\* non-empty one and a generated one otherwise; the stored resolution is the
\* returned one (floats as decimals), a confidence raised to 0.95 included;
\* human_intervention is true exactly when the status is pending_human.
C26_AuditAgreesWithOutcome ==
    /\ Len(audit) <= 1
    /\ (Returned /\ Len(audit) = 1) =>
        LET item == audit[1].m IN
        /\ item["incident_id"] = Str(response.incident_id)
        /\ SuppliedId => response.incident_id = alert.incident_id.s
        /\ ~SuppliedId => response.incident_id = "uuid-1"
        /\ FloatsToDecimals(Dict(response.resolution), item["resolution"])
        /\ item["human_intervention"].t = "bool"
        /\ item["human_intervention"] = PyTrue <=> response.status = "pending_human"

\* a run for the supplied id inc-1 returned resolved with the confidence
\* raised to 0.95, and stored the same
C26_Witness ==
    /\ Returned
    /\ alert.incident_id = Str("inc-1")
    /\ Len(audit) = 1
    /\ audit[1].m["incident_id"] = Str("inc-1")
    /\ response.status = "resolved"
    /\ response.resolution["confidence"] = Float(95)
    /\ audit[1].m["resolution"].m["confidence"] = Mk("Decimal", 95, "", <<>>, <<>>)
    /\ audit[1].m["human_intervention"] = PyFalse

\* the agent of task output i is no text, so `in agent_name` raises there
BadAgent(i) == result.tasks[i].agent.t \notin {"str", "None"}

\* extraction of the last result raised at task output i, and not before
ExtractionRaisedAt(i) ==
    /\ GotResult
    /\ result.hasTasks
    /\ i \in 1..Len(result.tasks)
    /\ BadAgent(i)
    /\ \A j \in 1..(i - 1) : ~BadAgent(j)

\* the mapping recovered from the outputs before i of the agent named
RecoveredBefore(i, name) ==
    LET js == {j \in 1..(i - 1) : result.tasks[j].agent = Str(name)}
    IN IF js = {} THEN EmptyDict
       ELSE ParsePossibleJson(result.tasks[SetMax(js)].raw)

\* C27: when extraction raises at a task output, the request does not end in
\* that exception: the mappings recovered from the outputs before it are
\* kept, the resolution is the defaults overlaid with them (the pure
\* defaults when nothing was recovered), and the run goes on to the audit
\* write.
C27_ExtractionFailureKeepsRecovered ==
    \A i \in 1..4 :
        ExtractionRaisedAt(i) =>
            /\ parsed_analyzer = RecoveredBefore(i, "Resolution Generator")
            /\ parsed_executor = RecoveredBefore(i, "Fix Executor")
            /\ parsed_executor = EmptyDict
            /\ resolution = parsed_analyzer.m @@ Defaults
            /\ parsed_analyzer = EmptyDict => resolution = Defaults
            /\ pc \in {"put_item", "returned", "raised"}
            /\ pc = "raised" => response = Failure(500, "ClientError")

\* extraction raised at the Execute output; the Analyze mapping recovered
\* before it was merged and the run returned
C27_Witness ==
    /\ Returned
    /\ ExtractionRaisedAt(4)
    /\ parsed_analyzer = Dict("confidence" :> Float(85))
    /\ response.resolution["confidence"] = Float(85)
    /\ response.status = "resolved"

\* C28: in one run the remote command executor is invoked at most once,
\* retried attempts of the reasoning call included.
C28_OneRemoteCommand == ssmSent + ssmFailed <= 1

\* C29: a returned resolution with executed false, the "LLM unavailable"
\* one included, means that no remote command was sent in that run.
C29_NotExecutedNothingSent ==
    (Returned /\ response.resolution["executed"] = PyFalse) => ssmSent = 0

\* the attempts so far, all failed with a transient error
AllTransient ==
    \A i \in 1..Len(backoff.calls) : backoff.calls[i] \in Transient

\* C30: every failed transient attempt is followed by a wait, the last one
\* included: when all `retries` attempts have failed the wrapper has waited
\* `retries` times, and it raises only from the wait after the last attempt;
\* an attempt that succeeded is followed by no wait.
C30_WaitAfterEveryFailure ==
    /\ [](LET n == Len(backoff.calls) IN
           /\ AllTransient => Len(backoff.sleeps) = n
           /\ (backoff.pc = "raised" /\ AllTransient /\ n >= 1) =>
                 (n = backoff.retries /\ Len(backoff.sleeps) = backoff.retries)
           /\ \A i \in 1..n : backoff.calls[i] = "ok" =>
                 (i = n /\ Len(backoff.sleeps) = n - 1 /\ backoff.pc = "returned"))
    /\ [][(backoff'.pc = "raised" /\ backoff'.raised \in Transient)
             => (backoff.pc = "sleep" /\ backoff'.sleeps = backoff.sleeps)]_vars

\* three attempts failed, three waits were made, the last error was raised
C30_Witness ==
    /\ backoff.pc = "raised"
    /\ backoff.retries = 3
    /\ Len(backoff.calls) = 3
    /\ AllTransient
    /\ backoff.sleeps = <<1, 2, 4>>

====
